---- MODULE Spec2Model ----
(***************************************************************************)
(* babel-plugin-transform-define (src/index.js): the path enumerator       *)
(* getSortedObjectPaths, the resolver getFirstReplacementValueForNode, the *)
(* rewriter replaceAndEvaluateNode and the three visitors.                 *)
(*                                                                         *)
(* JavaScript values are records of one shape, (type, lit, ref): a         *)
(* primitive carries its literal text in lit, an object its identity in    *)
(* ref.  Objects live in a heap, heap[id] being the function from the      *)
(* object's own keys to their values, so that two references to the same   *)
(* object (sharing, cycles) are the same id.  Strings are TLA+ strings:    *)
(* keys such as "a.b" and "typeof a" are split, joined and cut as the code *)
(* does it.                                                                *)
(***************************************************************************)
EXTENDS Naturals, Sequences, FiniteSets

VARIABLES
    heap,        \* the objects of the configuration map: id -> (own key -> value)
    opts,        \* state.opts: the configuration object, or a path to a module
    fileExists,  \* whether the module opts names can be accessed and loaded
    tree,        \* the visited node with its parent and grandparent, after the visit
    before,      \* the same three nodes as the visitor received them
    evaluated,   \* what parentPath.evaluate() answered in the last visit, if called
    thrown,      \* an error has left a visitor: the pass is aborted
    substituted, \* some node of this pass has been replaced
    input,       \* the argument of a direct call of getSortedObjectPaths
    paths        \* what that call returned

vars == <<heap, opts, fileExists, tree, before, evaluated, thrown, substituted,
          input, paths>>

(***************************************************************************)
(* Values                                                                  *)
(***************************************************************************)
Str(s) == [type |-> "string", lit |-> s, ref |-> 0]

Num(s) == [type |-> "number", lit |-> s, ref |-> 0]

Bool(b) == [type |-> "boolean", lit |-> IF b THEN "true" ELSE "false", ref |-> 0]

Obj(id) == [type |-> "object", lit |-> "", ref |-> id]

UNDEFINED == [type |-> "undefined", lit |-> "", ref |-> 0]

NULL == [type |-> "null", lit |-> "", ref |-> 0]

\* JavaScript ToBoolean, as `!obj`, `|| null` and `if (replacement)` apply it.
Truthy(v) ==
    CASE v.type = "object" -> TRUE
      [] v.type = "string" -> v.lit # ""
      [] v.type = "number" -> v.lit # "0"
      [] v.type = "boolean" -> v.lit = "true"
      [] OTHER -> FALSE

(***************************************************************************)
(* Strings                                                                 *)
(***************************************************************************)
HasDot(s) == \E i \in 1..Len(s) : SubSeq(s, i, i) = "."

FirstDot(s) ==
    CHOOSE i \in 1..Len(s) :
        /\ SubSeq(s, i, i) = "."
        /\ \A j \in 1..(i - 1) : SubSeq(s, j, j) # "."

RECURSIVE split(_)
\* String.prototype.split("."), as matchesPattern cuts its pattern.
split(s) ==
    IF ~HasDot(s) THEN <<s>>
    ELSE <<SubSeq(s, 1, FirstDot(s) - 1)>> \o split(SubSeq(s, FirstDot(s) + 1, Len(s)))

RECURSIVE join(_)
\* Array.prototype.join(".")
join(arr) ==
    IF arr = <<>> THEN ""
    ELSE IF Len(arr) = 1 THEN arr[1]
    ELSE arr[1] \o "." \o join(Tail(arr))

(***************************************************************************)
(* Objects.  Object.keys lists own keys in insertion order; the objects of *)
(* the model insert their keys in the order of KeyOrder.                   *)
(***************************************************************************)
KeyOrder == <<"a", "b", "a.b", "typeof a", "undefined">>

ownKeys(object) == SelectSeq(KeyOrder, LAMBDA k : k \in DOMAIN object)

EmptyObject == [k \in {} |-> UNDEFINED]

\* object[key]: an own property, or undefined.
prop(h, object, key) ==
    IF object.type = "object" /\ key \in DOMAIN h[object.ref]
    THEN h[object.ref][key]
    ELSE UNDEFINED

(***************************************************************************)
(* traverse(obj).paths(): the walk of the `traverse` package, pre-order.   *)
(* The callback sees every node, the circular ones too; the walk does not  *)
(* descend into a node that is one of its own ancestors.                   *)
(***************************************************************************)
\* The cycle test that lets an ancestor be entered once more.
CircularSecondEntry(parents, id) ==
    Cardinality({i \in 1..Len(parents) : parents[i] = id}) >= 2

\* state.circular: the node is one of its ancestors.
Circular(parents, id) == \E i \in 1..Len(parents) : parents[i] = id

RECURSIVE walker(_, _, _, _)
RECURSIVE walkKeys(_, _, _, _, _)
walker(h, node, parents, path) ==
    IF node.type = "object" /\ ~Circular(parents, node.ref)
    THEN <<path>> \o walkKeys(h, node, Append(parents, node.ref), path,
                              ownKeys(h[node.ref]))
    ELSE <<path>>

walkKeys(h, node, parents, path, keys) ==
    IF keys = <<>> THEN <<>>
    ELSE walker(h, h[node.ref][Head(keys)], parents, Append(path, Head(keys)))
         \o walkKeys(h, node, parents, path, Tail(keys))

traversePaths(h, obj) == walker(h, obj, <<>>, <<>>)

(***************************************************************************)
(* .sort((elem) => elem.length): the comparator ignores its second         *)
(* argument and answers a positive number for every pair of non-empty      *)
(* strings, so it is not a consistent comparator and the order of the      *)
(* result is implementation-defined (V8's TimSort keeps the order it was   *)
(* given, V8's older insertion sort reverses it).  Every permutation is a  *)
(* possible outcome.                                                       *)
(***************************************************************************)
RECURSIVE Orders(_)
\* The orders of an array: any element first, then an order of the others.
Orders(arr) ==
    IF Len(arr) <= 1 THEN {arr}
    ELSE UNION {{<<arr[i]>> \o rest
                   : rest \in Orders(SubSeq(arr, 1, i - 1) \o SubSeq(arr, i + 1, Len(arr)))}
                  : i \in 1..Len(arr)}

SortOutcomes(arr) == Orders(arr)

\* .map((arr) => arr.join("."))
RECURSIVE joinAll(_)
joinAll(arrs) ==
    IF arrs = <<>> THEN <<>> ELSE <<join(Head(arrs))>> \o joinAll(Tail(arrs))

\* The enumeration that keeps the root's empty path.
getSortedObjectPathsWithRoot(h, obj) ==
    IF ~Truthy(obj) THEN {<<>>}
    ELSE SortOutcomes(joinAll(traversePaths(h, obj)))

\* getSortedObjectPaths(obj): the set of the orders the call may return.
getSortedObjectPaths(h, obj) ==
    IF ~Truthy(obj) THEN {<<>>}
    ELSE SortOutcomes(joinAll(SelectSeq(traversePaths(h, obj),
                                         LAMBDA arr : Len(arr) # 0)))

(***************************************************************************)
(* lodash.get(object, path).  A path that is a key of the object itself,   *)
(* or that holds no ".", is one property name; any other path is cut at    *)
(* its dots.  An undefined path is the property name "undefined".          *)
(***************************************************************************)
toKey(value) == IF value.type = "string" THEN value.lit ELSE "undefined"

isKey(h, value, object) ==
    \/ value.type # "string"
    \/ ~HasDot(value.lit)
    \/ (object.type = "object" /\ value.lit \in DOMAIN h[object.ref])

stringToPath(string) == split(string)

castPath(h, value, object) ==
    IF isKey(h, value, object) THEN <<toKey(value)>> ELSE stringToPath(value.lit)

RECURSIVE baseGet(_, _, _)
baseGet(h, object, path) ==
    IF path = <<>> THEN object
    ELSE IF object.type \in {"undefined", "null"} THEN UNDEFINED
    ELSE baseGet(h, prop(h, object, Head(path)), Tail(path))

get(h, object, path) ==
    IF object.type \in {"undefined", "null"} THEN UNDEFINED
    ELSE baseGet(h, object, castPath(h, path, object))

(***************************************************************************)
(* The host's nodes.  A node is (type, name, chain, operator, value,       *)
(* right): an Identifier has a name, a MemberExpression the chain of its   *)
(* names (a.b.c is <<"a","b","c">>), a UnaryExpression its operator and    *)
(* its argument's name, a literal its value; a BinaryExpression has the    *)
(* node below it as its left operand and `right` as its right operand,     *)
(* UNKNOWN when that operand is no literal.  A node path is the node with  *)
(* its parent and its grandparent.                                         *)
(***************************************************************************)
UNKNOWN == [type |-> "unknown", lit |-> "", ref |-> 0]

Node(type, name, chain, operator, value, right) ==
    [type |-> type, name |-> name, chain |-> chain, operator |-> operator,
     value |-> value, right |-> right]

NoNode == Node("none", "", <<>>, "", UNDEFINED, UNKNOWN)

Identifier(name) == Node("Identifier", name, <<>>, "", UNDEFINED, UNKNOWN)

MemberExpression(chain) == Node("MemberExpression", "", chain, "", UNDEFINED, UNKNOWN)

UnaryExpression(operator, argument) ==
    Node("UnaryExpression", argument, <<>>, operator, UNDEFINED, UNKNOWN)

BinaryExpression(operator, right) ==
    Node("BinaryExpression", "", <<>>, operator, UNDEFINED, right)

CallExpression == Node("CallExpression", "", <<>>, "", UNDEFINED, UNKNOWN)

ExpressionStatement == Node("ExpressionStatement", "", <<>>, "", UNDEFINED, UNKNOWN)

\* t.valueToNode(value)
valueToNode(value) ==
    Node(CASE value.type = "string" -> "StringLiteral"
           [] value.type = "number" -> "NumericLiteral"
           [] value.type = "boolean" -> "BooleanLiteral"
           [] value.type = "object" -> "ObjectExpression"
           [] OTHER -> "NullLiteral",
         "", <<>>, "", value, UNKNOWN)

isLiteral(node) == node.type \in {"StringLiteral", "NumericLiteral", "BooleanLiteral"}

isBinaryExpression(node) == node.type = "BinaryExpression"

\* nodePath.matchesPattern(value): the chain's names are the pattern's parts.
matchesPattern(nodePath, value) ==
    nodePath.node.type = "MemberExpression" /\ split(value) = nodePath.node.chain

memberExpressionComparator(nodePath, value) == matchesPattern(nodePath, value)

identifierComparator(nodePath, value) == nodePath.node.name = value

unaryExpressionComparator(nodePath, value) == nodePath.node.name = value

\* comparator(nodePath, value), the comparator being passed by its name.
compare(comparator, nodePath, value) ==
    CASE comparator = "memberExpressionComparator" ->
             memberExpressionComparator(nodePath, value)
      [] comparator = "identifierComparator" -> identifierComparator(nodePath, value)
      [] comparator = "unaryExpressionComparator" ->
             unaryExpressionComparator(nodePath, value)

\* parentPath.evaluate(), the parent being `left === right`: the answers the
\* host may give.  Two literals compare by type and value.  An object
\* expression is never identical to a literal; whether the evaluator says so
\* with confidence depends on the host's version.
NotEvaluated == [called |-> FALSE, confident |-> FALSE, value |-> UNDEFINED]

Evaluation(confident, value) == [called |-> TRUE, confident |-> confident, value |-> value]

evaluate(parent, left) ==
    IF parent.right = UNKNOWN THEN {Evaluation(FALSE, UNDEFINED)}
    ELSE IF isLiteral(left) THEN {Evaluation(TRUE, Bool(left.value = parent.right))}
    ELSE IF left.type = "ObjectExpression"
    THEN {Evaluation(TRUE, Bool(FALSE)), Evaluation(FALSE, UNDEFINED)}
    ELSE {Evaluation(FALSE, UNDEFINED)}

(***************************************************************************)
(* The plugin                                                              *)
(***************************************************************************)
THROWN == [type |-> "throw", lit |-> "Error", ref |-> 0]

ModuleExports == Obj(1)

\* The loader that does not test whether the module can be accessed.
getReplacementsUnchecked(configOptions) ==
    IF configOptions.type = "object" THEN configOptions ELSE ModuleExports

\* getReplacements(configOptions): the object itself, or what the module at
\* that path exports; THROWN when the module cannot be accessed.
getReplacements(configOptions) ==
    IF configOptions.type = "object" THEN configOptions
    ELSE IF fileExists THEN ModuleExports
    ELSE THROWN

Outcome(nodePath, evaluation) == [tree |-> nodePath, evaluated |-> evaluation]

\* The rewriter that folds whatever the evaluation's confidence.
replaceAndEvaluateNodeAlways(nodePath, replacement) ==
    LET replaced == [nodePath EXCEPT !.node = valueToNode(replacement)]
    IN  IF isBinaryExpression(replaced.parent)
        THEN {Outcome([replaced EXCEPT !.parent = valueToNode(result.value)], result)
                : result \in evaluate(replaced.parent, replaced.node)}
        ELSE {Outcome(replaced, NotEvaluated)}

\* replaceAndEvaluateNode(replaceFn, nodePath, replacement), replaceFn being
\* t.valueToNode: the outcomes, one per answer of evaluate.
replaceAndEvaluateNode(nodePath, replacement) ==
    LET replaced == [nodePath EXCEPT !.node = valueToNode(replacement)]
    IN  IF isBinaryExpression(replaced.parent)
        THEN {IF result.confident
              THEN Outcome([replaced EXCEPT !.parent = valueToNode(result.value)], result)
              ELSE Outcome(replaced, result)
                : result \in evaluate(replaced.parent, replaced.node)}
        ELSE {Outcome(replaced, NotEvaluated)}

\* .shift(): the first element, or undefined.
shift(arr) == IF Len(arr) = 0 THEN UNDEFINED ELSE Str(arr[1])

\* The keys the resolver may select: the first match of each possible order.
replacementKeys(h, obj, comparator, nodePath) ==
    {shift(SelectSeq(sorted, LAMBDA value : compare(comparator, nodePath, value)))
        : sorted \in getSortedObjectPaths(h, obj)}

\* `get(obj, replacementKey) || null`
orNull(value) == IF Truthy(value) THEN value ELSE NULL

\* getFirstReplacementValueForNode(obj, comparator, nodePath): the values it
\* may return.
getFirstReplacementValueForNode(h, obj, comparator, nodePath) ==
    {orNull(get(h, obj, replacementKey))
        : replacementKey \in replacementKeys(h, obj, comparator, nodePath)}

\* The visit that takes every defined value for a replacement.
processNodeDefined(h, replacements, nodePath, comparator) ==
    UNION {IF get(h, replacements, replacementKey) # UNDEFINED
           THEN replaceAndEvaluateNode(nodePath, get(h, replacements, replacementKey))
           ELSE {Outcome(nodePath, NotEvaluated)}
             : replacementKey \in replacementKeys(h, replacements, comparator, nodePath)}

\* processNode(replacements, nodePath, replaceFn, comparator)
processNode(h, replacements, nodePath, comparator) ==
    UNION {IF Truthy(replacement)
           THEN replaceAndEvaluateNode(nodePath, replacement)
           ELSE {Outcome(nodePath, NotEvaluated)}
             : replacement \in getFirstReplacementValueForNode(h, replacements,
                                                                comparator, nodePath)}

\* The length of the prefix "typeof ".
PrefixLength == 7

\* String.prototype.substring(start, end) and substring(start)
substring(s, start, end) ==
    SubSeq(s, start + 1, IF end < Len(s) THEN end ELSE Len(s))

substringFrom(s, start) == SubSeq(s, start + 1, Len(s))

\* The identity of the object `typeofValues` that a typeof visit builds.
TypeofValuesId == 0

typeofKeys(object) ==
    {key \in DOMAIN object : substring(key, 0, PrefixLength) = "typeof "}

\* The namespace that also takes the keys without the prefix.
typeofValuesUnfiltered(h, replacements) ==
    LET object == h[replacements.ref]
    IN  [i \in DOMAIN h \cup {TypeofValuesId} |->
           IF i = TypeofValuesId
           THEN [k \in {substringFrom(key, PrefixLength) : key \in typeofKeys(object)}
                       \cup (DOMAIN object \ typeofKeys(object)) |->
                   IF k \in DOMAIN object \ typeofKeys(object)
                   THEN object[k] ELSE object["typeof " \o k]]
           ELSE h[i]]

\* The namespace written into the configuration object itself.
typeofValuesInPlace(h, replacements) ==
    LET object == h[replacements.ref]
        stripped == {substringFrom(key, PrefixLength) : key \in typeofKeys(object)}
        merged == [k \in DOMAIN object \cup stripped |->
                     IF k \in stripped THEN object["typeof " \o k] ELSE object[k]]
    IN  [i \in DOMAIN h \cup {TypeofValuesId} |->
           IF i \in {TypeofValuesId, replacements.ref} THEN merged ELSE h[i]]

\* The forEach of visitor.UnaryExpression: the heap with the new object
\* typeofValues, which holds, for every key "typeof X", X with that key's value.
typeofValues(h, replacements) ==
    LET object == h[replacements.ref]
    IN  [i \in DOMAIN h \cup {TypeofValuesId} |->
           IF i = TypeofValuesId
           THEN [k \in {substringFrom(key, PrefixLength) : key \in typeofKeys(object)} |->
                   object["typeof " \o k]]
           ELSE h[i]]

(***************************************************************************)
(* The configurations of a pass: a root object of at most MaxKeys keys,    *)
(* its values primitives or the nested object, itself of primitives, with  *)
(* at most MaxPaths paths in all; the options are the root itself or the   *)
(* path of a module that exports it.                                       *)
(***************************************************************************)
ObjIds == 1..2

MaxKeys == 2

MaxPaths == 4

\* The number of the paths of a map, the root's empty path not counted.
PathCount(h, obj) == Len(traversePaths(h, obj)) - 1

RootKeys == {"a", "a.b", "typeof a", "undefined"}

ChildKeys == {"b", "a.b"}

RootValues == {Str("x"), Num("0"), Bool(FALSE), Obj(2)}

ChildValues == {Str("x"), Str("")}

ObjectsOver(keys, values, max) ==
    UNION {[d -> values] : d \in {s \in SUBSET keys : Cardinality(s) <= max}}

\* An object that no other refers to is the empty one.
NoGarbage(h) == (\A k \in DOMAIN h[1] : h[1][k] # Obj(2)) => h[2] = EmptyObject

ConfigHeaps ==
    {h \in [ObjIds -> ObjectsOver(RootKeys, RootValues, MaxKeys)
                          \cup ObjectsOver(ChildKeys, ChildValues, 1)] :
        /\ h[1] \in ObjectsOver(RootKeys, RootValues, MaxKeys)
        /\ h[2] \in ObjectsOver(ChildKeys, ChildValues, 1)
        /\ NoGarbage(h)
        /\ PathCount(h, Obj(1)) <= MaxPaths}

Names == {"a", "b"}

MemberNodes ==
    {MemberExpression(<<"a", n>>) : n \in Names}
        \cup {MemberExpression(<<"a", n, "b">>) : n \in Names}

IdentifierNodes == {Identifier(n) : n \in Names \cup {"undefined"}}

UnaryNodes == {UnaryExpression(op, n) : op \in {"typeof", "!"}, n \in Names}

\* What stands above the node: f(node), node === q, node === literal, each in
\* a statement of its own, and (node === "x") === true.
Parents ==
    {CallExpression, BinaryExpression("===", UNKNOWN)}
        \cup {BinaryExpression("===", Str(s)) : s \in {"x", "y"}}

Contexts ==
    {[parent |-> p, grand |-> ExpressionStatement] : p \in Parents}
        \cup {[parent |-> BinaryExpression("===", Str("x")),
                grand |-> BinaryExpression("===", Bool(TRUE))]}

NodePaths(nodes) ==
    {[node |-> n, parent |-> c.parent, grand |-> c.grand] : n \in nodes, c \in Contexts}

NoTree == [node |-> NoNode, parent |-> NoNode, grand |-> NoNode]

Init ==
    /\ heap \in ConfigHeaps
    /\ opts \in {Obj(1), Str("./define.config.js")}
    /\ fileExists \in BOOLEAN
    /\ opts.type = "object" => ~fileExists
    /\ tree = NoTree
    /\ before = NoTree
    /\ evaluated = NotEvaluated
    /\ thrown = FALSE
    /\ substituted = FALSE
    /\ input = UNDEFINED
    /\ paths = <<>>

\* getReplacements threw: the error leaves the visitor.
Throw(nodePath) ==
    /\ before' = nodePath
    /\ tree' = nodePath
    /\ evaluated' = NotEvaluated
    /\ thrown' = TRUE
    /\ UNCHANGED <<heap, opts, fileExists, substituted, input, paths>>

\* The visitor returns: the node path as it left it, the configuration's
\* objects as the visit left them.
Return(nodePath, outcome, h) ==
    /\ before' = nodePath
    /\ tree' = outcome.tree
    /\ evaluated' = outcome.evaluated
    /\ substituted' = (substituted \/ outcome.tree # nodePath)
    /\ heap' = [i \in ObjIds |-> h[i]]
    /\ UNCHANGED <<opts, fileExists, thrown, input, paths>>

\* The host's traversal leaves the node it has visited and goes on.
Traverse ==
    /\ ~thrown
    /\ tree # NoTree
    /\ tree' = NoTree
    /\ before' = NoTree
    /\ evaluated' = NotEvaluated
    /\ UNCHANGED <<heap, opts, fileExists, thrown, substituted, input, paths>>

\* visitor.MemberExpression(nodePath, state)
VisitMemberExpression ==
    /\ ~thrown
    /\ tree = NoTree
    /\ \E nodePath \in NodePaths(MemberNodes) :
         LET replacements == getReplacements(opts)
         IN  IF replacements = THROWN THEN Throw(nodePath)
             ELSE \E outcome \in processNode(heap, replacements, nodePath,
                                             "memberExpressionComparator") :
                     Return(nodePath, outcome, heap)

\* visitor.Identifier(nodePath, state)
VisitIdentifier ==
    /\ ~thrown
    /\ tree = NoTree
    /\ \E nodePath \in NodePaths(IdentifierNodes) :
         LET replacements == getReplacements(opts)
         IN  IF replacements = THROWN THEN Throw(nodePath)
             ELSE \E outcome \in processNode(heap, replacements, nodePath,
                                             "identifierComparator") :
                     Return(nodePath, outcome, heap)

\* visitor.UnaryExpression(nodePath, state)
VisitUnaryExpression ==
    /\ ~thrown
    /\ tree = NoTree
    /\ \E nodePath \in NodePaths(UnaryNodes) :
         IF nodePath.node.operator # "typeof"
         THEN Return(nodePath, Outcome(nodePath, NotEvaluated), heap)
         ELSE LET replacements == getReplacements(opts)
              IN  IF replacements = THROWN THEN Throw(nodePath)
                  ELSE LET h == typeofValues(heap, replacements)
                       IN  \E outcome \in processNode(h, Obj(TypeofValuesId), nodePath,
                                                       "unaryExpressionComparator") :
                              Return(nodePath, outcome, h)

Next ==
    \/ VisitMemberExpression
    \/ VisitIdentifier
    \/ VisitUnaryExpression
    \/ Traverse

Spec == Init /\ [][Next]_vars

(***************************************************************************)
(* A direct call of the exported getSortedObjectPaths, on a falsy value    *)
(* or on any graph of two objects, cycles and sharing included, that has   *)
(* at most MaxPaths paths.                                                 *)
(***************************************************************************)
PathKeys == {"a", "b", "a.b"}

PathValues == {Str("x"), Obj(1), Obj(2)}

PathHeaps ==
    {h \in [ObjIds -> ObjectsOver(PathKeys, PathValues, Cardinality(PathKeys))] :
        /\ NoGarbage(h)
        /\ PathCount(h, Obj(1)) <= MaxPaths}

PathInputs == {UNDEFINED, NULL, Num("0"), Str(""), Bool(FALSE), Str("x")}

NotCalled == <<"(not called)">>

InitPaths ==
    /\ \/ input = Obj(1) /\ heap \in PathHeaps
       \/ input \in PathInputs /\ heap = [i \in ObjIds |-> EmptyObject]
    /\ paths = NotCalled
    /\ opts = UNDEFINED
    /\ fileExists = FALSE
    /\ tree = NoTree
    /\ before = NoTree
    /\ evaluated = NotEvaluated
    /\ thrown = FALSE
    /\ substituted = FALSE

CallGetSortedObjectPaths ==
    /\ paths = NotCalled
    /\ paths' \in getSortedObjectPaths(heap, input)
    /\ UNCHANGED <<heap, opts, fileExists, tree, before, evaluated, thrown,
                   substituted, input>>

NextPaths == CallGetSortedObjectPaths

SpecPaths == InitPaths /\ [][NextPaths]_vars

(***************************************************************************)
(* What the properties speak of: the locations of an object graph, which   *)
(* are the key chains that lead from the root to a value without entering  *)
(* any object twice, and the value configured at a chain.                  *)
(***************************************************************************)
AllKeys == {KeyOrder[i] : i \in DOMAIN KeyOrder}

RECURSIVE ValueAt(_, _, _)
ValueAt(h, obj, chain) ==
    IF chain = <<>> THEN obj
    ELSE IF obj.type = "object" /\ Head(chain) \in DOMAIN h[obj.ref]
    THEN ValueAt(h, h[obj.ref][Head(chain)], Tail(chain))
    ELSE UNDEFINED

Container(h, obj, chain, i) == ValueAt(h, obj, SubSeq(chain, 1, i - 1))

IsLocation(h, obj, chain) ==
    \A i \in 1..Len(chain) :
        /\ Container(h, obj, chain, i).type = "object"
        /\ chain[i] \in DOMAIN h[Container(h, obj, chain, i).ref]
        /\ \A j \in 1..(i - 1) : Container(h, obj, chain, j) # Container(h, obj, chain, i)

RECURSIVE LocationsFrom(_, _, _, _)
LocationsFrom(h, obj, chains, n) ==
    IF n = 0 \/ chains = {} THEN {}
    ELSE LET longer == {c \in {Append(chain, k) : chain \in chains, k \in AllKeys} :
                           IsLocation(h, obj, c)}
         IN  longer \cup LocationsFrom(h, obj, longer, n - 1)

\* No chain enters more objects than there are.
Locations(h, obj) ==
    IF obj.type # "object" THEN {}
    ELSE LocationsFrom(h, obj, {<<>>}, Cardinality(DOMAIN h))

\* Some object within reach of the root contains itself, directly or not.
Cyclic(h, obj) ==
    \E c \in Locations(h, obj) :
        \E i \in 1..Len(c) : ValueAt(h, obj, c) = Container(h, obj, c, i)

Occurrences(arr, s) == Cardinality({i \in 1..Len(arr) : arr[i] = s})

NoDuplicates(arr) == \A i, j \in 1..Len(arr) : i # j => arr[i] # arr[j]

\* The sequence holds one string per location: the joined chain, as often as
\* there are chains that join to it, and nothing else.
OnePathPerLocation(arr, h, obj) ==
    /\ Len(arr) = Cardinality(Locations(h, obj))
    /\ \A i \in 1..Len(arr) : \E c \in Locations(h, obj) : arr[i] = join(c)
    /\ \A c \in Locations(h, obj) :
          Occurrences(arr, join(c))
              = Cardinality({d \in Locations(h, obj) : join(d) = join(c)})

Called == paths # NotCalled

(***************************************************************************)
(* C6.  getSortedObjectPaths returns its paths ordered by length, every    *)
(* longer path before every shorter one.                                   *)
(***************************************************************************)
C6_LongerPathsFirst ==
    Called => \A i, j \in 1..Len(paths) : i < j => Len(paths[i]) >= Len(paths[j])

(***************************************************************************)
(* C7, as the spec states it.  For a non-cyclic map the result holds       *)
(* exactly one path per location, never the root's empty path, and no      *)
(* string twice; for a falsy input it is empty.                            *)
(***************************************************************************)
C7_OnePathNoDuplicates ==
    /\ (Called /\ input.type = "object" /\ ~Cyclic(heap, input)) =>
          /\ OnePathPerLocation(paths, heap, input)
          /\ Occurrences(paths, "") = 0
          /\ NoDuplicates(paths)
    /\ (Called /\ ~Truthy(input)) => paths = <<>>

(***************************************************************************)
(* C7, amended.  For a non-cyclic map the result holds exactly one path    *)
(* per location (one per key chain, intermediate objects and leaves        *)
(* alike), never the root's empty path; two entries are the same string    *)
(* only where two different key chains join to the same dotted string,     *)
(* which takes a key that holds a "."; for a falsy input it is empty.      *)
(***************************************************************************)
C7_OnePathPerLocation ==
    /\ (Called /\ input.type = "object" /\ ~Cyclic(heap, input)) =>
          /\ OnePathPerLocation(paths, heap, input)
          /\ Occurrences(paths, "") = 0
          /\ (\A c \in Locations(heap, input) : \A i \in 1..Len(c) : ~HasDot(c[i]))
                => NoDuplicates(paths)
    /\ (Called /\ ~Truthy(input)) => paths = <<>>

\* A non-cyclic map with a nested object has been enumerated.
C7_Witness ==
    /\ Called
    /\ input.type = "object"
    /\ ~Cyclic(heap, input)
    /\ \E c \in Locations(heap, input) : Len(c) = 2
    /\ Len(paths) >= 3

(***************************************************************************)
(* C8.  For a map that contains itself, directly or transitively, the call *)
(* returns, and what it returns are the paths of the locations: a path     *)
(* ends where it comes back to an object it has passed through.            *)
(***************************************************************************)
C8_CyclesAreCut ==
    (Called /\ input.type = "object" /\ Cyclic(heap, input)) =>
        OnePathPerLocation(paths, heap, input)

\* A map whose nested object refers back to the root has been enumerated.
C8_Witness ==
    /\ Called
    /\ input.type = "object"
    /\ \E k \in DOMAIN heap[2] : heap[2][k] = Obj(1)
    /\ \E k \in DOMAIN heap[1] : heap[1][k] = Obj(2)
    /\ Len(paths) >= 2

(***************************************************************************)
(* The visits.  Root is the configuration map of the pass; Form is the     *)
(* dotted form of a member chain or the name of an identifier; the         *)
(* matching locations are those whose path is the visited node's form.     *)
(***************************************************************************)
Root == Obj(1)

Visited == before # NoTree

ConfigLoaded == opts.type = "object" \/ fileExists

Form(node) == IF node.type = "MemberExpression" THEN join(node.chain) ELSE node.name

IsTypeof(node) == node.type = "UnaryExpression" /\ node.operator = "typeof"

TypeofKey(node) == "typeof " \o node.name

MatchingLocations ==
    IF before.node.type \in {"MemberExpression", "Identifier"}
    THEN {c \in Locations(heap, Root) : join(c) = Form(before.node)}
    ELSE {}

\* The values configured for the visited node: at the matching locations, or
\* under the key "typeof X" for a node typeof X.
MatchedValues ==
    IF IsTypeof(before.node)
    THEN {heap[1][k] : k \in {TypeofKey(before.node)} \cap DOMAIN heap[1]}
    ELSE {ValueAt(heap, Root, c) : c \in MatchingLocations}

(***************************************************************************)
(* C1.  When the dotted form of a visited member chain, or the name of a   *)
(* visited identifier, is a path of the configuration map whose value is   *)
(* truthy, the node is replaced by the literal of that value.  Stated for  *)
(* the paths that name one location only, so that the value configured at  *)
(* the path is beyond doubt.                                               *)
(***************************************************************************)
C1_MatchedPathReplaced ==
    (Visited /\ ConfigLoaded /\ Cardinality(MatchingLocations) = 1) =>
        \A c \in MatchingLocations :
            Truthy(ValueAt(heap, Root, c)) =>
                tree.node = valueToNode(ValueAt(heap, Root, c))

(***************************************************************************)
(* C2.  A node typeof X is replaced by the literal of the value under the  *)
(* key "typeof X" when that value is truthy; whatever replaces a unary     *)
(* node is the value of a key that starts with "typeof ", so a key X alone *)
(* never has it replaced; and a unary node of another operator is left as  *)
(* it is.                                                                  *)
(***************************************************************************)
C2_TypeofNamespaceOnly ==
    (Visited /\ ConfigLoaded /\ before.node.type = "UnaryExpression") =>
        /\ IsTypeof(before.node) =>
              \A v \in MatchedValues : Truthy(v) => tree.node = valueToNode(v)
        /\ tree.node # before.node =>
              \E k \in DOMAIN heap[1] :
                  /\ substring(k, 0, PrefixLength) = "typeof "
                  /\ tree.node = valueToNode(heap[1][k])
        /\ ~IsTypeof(before.node) => tree = before

\* typeof a has been replaced by the value of "typeof a", the map having a key "a" too.
C2_Witness ==
    /\ Visited
    /\ IsTypeof(before.node)
    /\ before.node.name = "a"
    /\ DOMAIN heap[1] = {"a", "typeof a"}
    /\ tree.node = valueToNode(heap[1]["typeof a"])
    /\ heap[1]["a"] # heap[1]["typeof a"]

(***************************************************************************)
(* C3.  After a substitution the parent is replaced by the literal of its  *)
(* evaluated value exactly when it is a binary expression and the          *)
(* evaluation is confident (a comparison of the new literal with a literal *)
(* is, and yields whether the two are the same); otherwise the parent      *)
(* stays, with the substituted child.  The grandparent is never touched.   *)
(***************************************************************************)
C3_FoldConfidentBinaryParentOnly ==
    (Visited /\ tree.node # before.node) =>
        /\ tree.grand = before.grand
        /\ evaluated.called = isBinaryExpression(before.parent)
        /\ IF isBinaryExpression(before.parent) /\ evaluated.confident
           THEN tree.parent = valueToNode(evaluated.value)
           ELSE tree.parent = before.parent
        /\ (isBinaryExpression(before.parent) /\ before.parent.right # UNKNOWN
                /\ isLiteral(tree.node)) =>
              evaluated = Evaluation(TRUE, Bool(tree.node.value = before.parent.right))
        /\ (isBinaryExpression(before.parent) /\ before.parent.right = UNKNOWN) =>
              ~evaluated.confident

\* a === "x" under a further comparison, a configured as "x": the parent has
\* become true, the comparison above it is as it was.
C3_Witness ==
    /\ Visited
    /\ before.node = Identifier("a")
    /\ before.parent = BinaryExpression("===", Str("x"))
    /\ isBinaryExpression(before.grand)
    /\ tree.node = valueToNode(Str("x"))
    /\ tree.parent = valueToNode(Bool(TRUE))
    /\ tree.grand = before.grand

(***************************************************************************)
(* C4.  When the value configured for the visited node is 0, false or the  *)
(* empty string (at every location its form names), the visit leaves the   *)
(* node and its parent as they were: nothing is substituted, nothing is    *)
(* evaluated.                                                              *)
(***************************************************************************)
C4_FalsyValueLeavesNode ==
    (Visited /\ ConfigLoaded /\ MatchedValues # {}
        /\ MatchedValues \subseteq {Num("0"), Bool(FALSE), Str("")}) =>
        /\ tree = before
        /\ evaluated = NotEvaluated
        /\ ~thrown

\* a.b === "x" has been visited with "a.b" configured as 0, false or "".
C4_Witness ==
    /\ Visited
    /\ before.node = MemberExpression(<<"a", "b">>)
    /\ isBinaryExpression(before.parent)
    /\ MatchedValues # {}
    /\ MatchedValues \subseteq {Num("0"), Bool(FALSE), Str("")}
    /\ tree = before

(***************************************************************************)
(* C5.  When no path of the map (for typeof X: no key "typeof X") matches  *)
(* the visited node, nothing is thrown and the node path is left as it     *)
(* was, whatever the keys of the map.                                      *)
(***************************************************************************)
C5_NoMatchLeavesTree ==
    (Visited /\ ConfigLoaded /\ MatchedValues = {}
        /\ (before.node.type = "UnaryExpression" => IsTypeof(before.node))) =>
        /\ tree = before
        /\ ~thrown

(***************************************************************************)
(* C9.  When the options name a module that cannot be loaded, every visit  *)
(* that asks for the configuration throws, and no node of the pass has     *)
(* been substituted when it does.                                          *)
(***************************************************************************)
ObtainsConfig(node) == node.type = "UnaryExpression" => IsTypeof(node)

C9_ConfigErrorNoSubstitution ==
    /\ (Visited /\ ~ConfigLoaded /\ ObtainsConfig(before.node)) => thrown
    /\ ~ConfigLoaded => ~substituted
    /\ thrown => (~ConfigLoaded /\ ~substituted /\ tree = before)

\* A member chain has been visited under options that name a missing module.
C9_Witness ==
    /\ thrown
    /\ opts.type = "string"
    /\ before.node.type = "MemberExpression"
    /\ heap[1] # EmptyObject

(***************************************************************************)
(* C10.  No visit changes the configuration map: no key and no value of    *)
(* any of its objects is added, removed or modified.                       *)
(***************************************************************************)
C10_ConfigurationUnchanged == [][heap' = heap]_vars

\* A typeof node has been replaced from the namespace built for its visit.
C10_Witness ==
    /\ Visited
    /\ IsTypeof(before.node)
    /\ tree.node # before.node
    /\ Cardinality(DOMAIN heap[1]) = 2

====
